---------------------------- MODULE Spec2Model ----------------------------
(***************************************************************************)
(* Kataster-Sorter: the page engine of src/pdf_processor.py                *)
(* (detect_file_type and class KatasterSorter) and the desktop host of     *)
(* src/desktop_app.py (class KatasterSorterApp).                           *)
(*                                                                         *)
(* A document ("pdf bytes") is the sequence of its pages; a page is the    *)
(* record of what the regular expressions of pdf_processor.py:56-65 find   *)
(* in its extracted text.  An Optional[...] value is <<>> (None) or <<v>>. *)
(***************************************************************************)
EXTENDS Integers, Sequences, FiniteSets, TLC

(* ------------------------------ bounds --------------------------------- *)

\* longest main extract whose pages differ in case number and registry sheets
MaxPages == 3
\* longest main extract whose pages differ in sequence number as well
MaxSequencePages == 2
\* longest main extract whose pages differ in tracking code, with cover sets
MaxTrackingPages == 2
\* longest document handed to the stand-alone detector
MaxDetectPages == 6
\* processing runs the desktop host starts in one behaviour
MaxRuns == 2
\* longest special cover set
MaxSonderCovers == 2
\* longest standard cover set with repeated and missing sheet numbers
MaxStandardCovers == 3
\* longest file list with several files of one role
MaxFiles == 3

(* ------------------------- Optional values ----------------------------- *)

None == <<>>

Some(v) == <<v>>

\* Python truthiness of an Optional[str] / Optional[bytes] / list: None and
\* the empty value are false
Truthy(x) == x # <<>>

(* ---------------------- page texts and documents ----------------------- *)

\* what the patterns find in one page's text:
\*   ffn_m       FFN_PATTERN.search          (Optional[int])
\*   gb_m        GB_PATTERN.findall          (list of int, text order)
\*   gb_lfd_m    GB_LFD_PATTERN.search       (Optional[int])
\*   lfd_m       LFD_NR_PATTERN.search       (Optional[int])
\*   akz_m       AKZ_PATTERN.search          (Optional[str])
\*   gb_cover_m  GB_COVER_PATTERN.search     (Optional[int])
\*   mehrere_m   MEHRERE_GB_PATTERN.search   (bool)
PageText(f, g, gl, l, a, c, m) ==
    [ffn_m |-> f, gb_m |-> g, gb_lfd_m |-> gl, lfd_m |-> l, akz_m |-> a,
     gb_cover_m |-> c, mehrere_m |-> m]

\* a page of a main extract
KPage(f, g, l, a) == PageText(f, g, None, l, a, None, FALSE)

\* a page of a standard cover set ("Grundbuchblatt (lfd. Nr.): n")
CPage(c, a) == PageText(None, <<>>, None, None, a, c, FALSE)

\* a page of a special cover set ("mehrere Grundbuchblaetter")
SPage(a) == PageText(None, <<>>, None, None, a, None, TRUE)

\* a page on which no pattern matches
BlankPage == PageText(None, <<>>, None, None, None, None, FALSE)

\* all sequences over S of length 0..n
SeqsUpTo(S, n) == UNION {[1..k -> S] : k \in 0..n}

Range(s) == {s[i] : i \in 1..Len(s)}

(* --------------------------- sort keys --------------------------------- *)

\* a sort key component: an int, or float('inf')
Fin(n) == [inf |-> FALSE, n |-> n]

Inf == [inf |-> TRUE, n |-> 0]

KeyLess(a, b) == ~a.inf /\ (b.inf \/ a.n < b.n)

\* Python's tuple comparison a < b for two key tuples of the same length
RECURSIVE TupleLess(_, _)
TupleLess(a, b) ==
    IF a = <<>> \/ b = <<>> THEN FALSE
    ELSE IF KeyLess(a[1], b[1]) THEN TRUE
    ELSE IF KeyLess(b[1], a[1]) THEN FALSE
    ELSE TupleLess(Tail(a), Tail(b))

\* place index x into the sorted index list s, after every entry whose key
\* is not greater (list.sort is stable)
RECURSIVE InsertStable(_, _, _)
InsertStable(s, x, ks) ==
    IF s = <<>> THEN <<x>>
    ELSE IF TupleLess(ks[x], ks[s[1]]) THEN <<x>> \o s
    ELSE <<s[1]>> \o InsertStable(Tail(s), x, ks)

RECURSIVE SortPerm(_, _)
SortPerm(n, ks) ==
    IF n = 0 THEN <<>> ELSE InsertStable(SortPerm(n - 1, ks), n, ks)

\* list.sort(key=...): s sorted ascending and stably, ks[i] the key of s[i]
list_sort(s, ks) ==
    LET perm == SortPerm(Len(s), ks)
    IN [i \in 1..Len(s) |-> s[perm[i]]]

(* ------------------------- detect_file_type ---------------------------- *)

\* pdf.pages[:5]
SamplePages == 5

\* a detector that reads the whole document
Sample_whole(doc) == doc

Sample(doc) == SubSeq(doc, 1, IF Len(doc) < SamplePages THEN Len(doc) ELSE SamplePages)

ffn_count(doc) == Cardinality({i \in 1..Len(Sample(doc)) : doc[i].ffn_m # None})

gb_cover_count(doc) == Cardinality({i \in 1..Len(Sample(doc)) : doc[i].gb_cover_m # None})

mehrere_gb_count(doc) == Cardinality({i \in 1..Len(Sample(doc)) : doc[i].mehrere_m})

detect_file_type(doc) ==
    IF ffn_count(doc) > 0 THEN "kataster"
    ELSE IF mehrere_gb_count(doc) > 0 THEN "cover_sonder"
    ELSE IF gb_cover_count(doc) > 0 THEN "cover_standard"
    ELSE "kataster"

(* ------------------------ KatasterSorter: data -------------------------- *)

\* dataclass PageInfo
PageInfo(n, f, g, l, a) ==
    [page_number |-> n, ffn |-> f, gb_numbers |-> g, lfd_nr |-> l,
     antragskennzeichen |-> a]

\* dataclass CoverPage
CoverPage(n, g, a) == [page_number |-> n, gb_number |-> g, antragskennzeichen |-> a]

\* dataclass Package, with its field defaults
Package(f, ps) ==
    [ffn |-> f, pages |-> ps, unique_gbs |-> {}, is_sonderfall |-> FALSE,
     primary_gb |-> None, lfd_nr |-> None, antragskennzeichen |-> None]

(* ------------------- KatasterSorter: main extract ----------------------- *)

\* the sequence number of a page: the combined form wins over the
\* stand-alone form
page_lfd_nr(t) == IF t.gb_lfd_m # None THEN t.gb_lfd_m ELSE t.lfd_m

extract_page_info(doc) ==
    [i \in 1..Len(doc) |->
        PageInfo(i - 1, doc[i].ffn_m, Range(doc[i].gb_m), page_lfd_nr(doc[i]),
                 doc[i].akz_m)]

\* the code of the last page that has one (a loop without its break)
RECURSIVE extract_kataster_akz_last(_)
extract_kataster_akz_last(ps) ==
    IF ps = <<>> THEN None
    ELSE IF Truthy(ps[Len(ps)].antragskennzeichen) THEN ps[Len(ps)].antragskennzeichen
    ELSE extract_kataster_akz_last(SubSeq(ps, 1, Len(ps) - 1))

\* the code of the first page that has one
RECURSIVE extract_kataster_akz(_)
extract_kataster_akz(ps) ==
    IF ps = <<>> THEN None
    ELSE IF Truthy(ps[1].antragskennzeichen) THEN ps[1].antragskennzeichen
    ELSE extract_kataster_akz(Tail(ps))

\* dict_append with the group's list replaced instead of extended
dict_append_replacing(d, k, page) ==
    IF \E i \in 1..Len(d) : d[i].key = k
    THEN [i \in 1..Len(d) |->
            IF d[i].key = k THEN [d[i] EXCEPT !.val = <<page>>] ELSE d[i]]
    ELSE Append(d, [key |-> k, val |-> <<page>>])

\* ffn_groups[k].append(page) on a defaultdict(list) kept in insertion order
dict_append(d, k, page) ==
    IF \E i \in 1..Len(d) : d[i].key = k
    THEN [i \in 1..Len(d) |->
            IF d[i].key = k THEN [d[i] EXCEPT !.val = Append(@, page)] ELSE d[i]]
    ELSE Append(d, [key |-> k, val |-> <<page>>])

\* next_ffn with the number tested for truth, so that case number 0 counts
\* as absent
next_ffn_truthy(current_ffn, p) ==
    IF p.ffn # None /\ p.ffn # Some(0) THEN p.ffn ELSE current_ffn

\* the running case number after seeing page p
next_ffn(current_ffn, p) == IF p.ffn # None THEN p.ffn ELSE current_ffn

\* the first loop of _group_by_ffn over the first n pages:
\* the running case number and the groups
RECURSIVE ffn_groups(_, _)
ffn_groups(ps, n) ==
    IF n = 0 THEN [current_ffn |-> None, groups |-> <<>>]
    ELSE LET prev == ffn_groups(ps, n - 1)
             cur  == next_ffn(prev.current_ffn, ps[n])
         IN [current_ffn |-> cur, groups |-> dict_append(prev.groups, cur, ps[n])]

\* take_fields with the sequence number tested for truth, as the tracking
\* code is: a sequence number 0 counts as absent
RECURSIVE take_fields_truthy(_, _)
take_fields_truthy(pkg, ps) ==
    IF ps = <<>> THEN pkg
    ELSE LET p == ps[1]
             l == IF (p.lfd_nr # None /\ p.lfd_nr # Some(0))
                        /\ (pkg.lfd_nr = None \/ pkg.lfd_nr = Some(0))
                  THEN p.lfd_nr ELSE pkg.lfd_nr
             a == IF Truthy(p.antragskennzeichen) /\ ~Truthy(pkg.antragskennzeichen)
                  THEN p.antragskennzeichen ELSE pkg.antragskennzeichen
         IN take_fields_truthy([pkg EXCEPT !.lfd_nr = l, !.antragskennzeichen = a],
                               Tail(ps))

\* the inner loop of _group_by_ffn: a package takes its sequence number and
\* its tracking code from the first member page that has one
RECURSIVE take_fields(_, _)
take_fields(pkg, ps) ==
    IF ps = <<>> THEN pkg
    ELSE LET p == ps[1]
             l == IF p.lfd_nr # None /\ pkg.lfd_nr = None
                  THEN p.lfd_nr ELSE pkg.lfd_nr
             a == IF Truthy(p.antragskennzeichen) /\ ~Truthy(pkg.antragskennzeichen)
                  THEN p.antragskennzeichen ELSE pkg.antragskennzeichen
         IN take_fields([pkg EXCEPT !.lfd_nr = l, !.antragskennzeichen = a], Tail(ps))

group_by_ffn(ps) ==
    LET gs == ffn_groups(ps, Len(ps)).groups
    IN [i \in 1..Len(gs) |-> take_fields(Package(gs[i].key, gs[i].val), gs[i].val)]

(* -------------------- KatasterSorter: classification -------------------- *)

\* all_gbs of a package
all_gbs(pkg) == UNION {pkg.pages[i].gb_numbers : i \in 1..Len(pkg.pages)}

Min(S) == CHOOSE x \in S : \A y \in S : x <= y

\* is_special with the threshold off by one
is_special_from_one(gbs) == Cardinality(gbs) >= 1

is_special(gbs) == Cardinality(gbs) > 1

\* primary_of with the number tested for truth, so that sheet 0 counts as absent
primary_of_truthy(gbs) == IF gbs # {} /\ Min(gbs) # 0 THEN Some(Min(gbs)) ELSE None

primary_of(gbs) == IF gbs # {} THEN Some(Min(gbs)) ELSE None

\* _analyze_packages after its first n iterations; the two buckets hold
\* references to (positions of) the packages of self.packages
RECURSIVE analyze_packages(_, _)
analyze_packages(pk, n) ==
    IF n = 0
    THEN [packages |-> <<>> \o pk, standard_packages |-> <<>>,
          sonderfall_packages |-> <<>>]
    ELSE LET prev == analyze_packages(pk, n - 1)
             gbs  == all_gbs(prev.packages[n])
         IN IF is_special(gbs)
            THEN [prev EXCEPT !.packages[n].unique_gbs = gbs,
                              !.packages[n].is_sonderfall = TRUE,
                              !.sonderfall_packages = Append(@, n)]
            ELSE [prev EXCEPT !.packages[n].unique_gbs = gbs,
                              !.packages[n].is_sonderfall = FALSE,
                              !.packages[n].primary_gb = primary_of(gbs),
                              !.standard_packages = Append(@, n)]

\* sort_key with an absent key sorting first
sort_key_none_first(pkg) == IF pkg.primary_gb # None THEN Fin(pkg.primary_gb[1]) ELSE Fin(-1)

\* the key of _sort_packages
sort_key(pkg) == IF pkg.primary_gb # None THEN Fin(pkg.primary_gb[1]) ELSE Inf

sort_packages(pk, std) ==
    list_sort(std, [i \in 1..Len(std) |-> <<sort_key(pk[std[i]])>>])

(* ------------------------ KatasterSorter: covers ------------------------ *)

\* the registry-sheet number of a standard cover page: the cover label, else
\* the first plain registry-sheet label
cover_gb_number(t) ==
    IF t.gb_cover_m # None THEN t.gb_cover_m
    ELSE IF t.gb_m # <<>> THEN Some(t.gb_m[1]) ELSE None

parse_standard_covers(doc) ==
    [i \in 1..Len(doc) |-> CoverPage(i - 1, cover_gb_number(doc[i]), doc[i].akz_m)]

parse_sonder_covers(doc) ==
    [i \in 1..Len(doc) |-> CoverPage(i - 1, None, doc[i].akz_m)]

(* ----------------------- KatasterSorter: assembly ---------------------- *)

\* a correction of every cover that carries a code, equal or not
needs_correction_any(akz, cover) == Truthy(akz) /\ Truthy(cover.antragskennzeichen)

\* the condition of _apply_akz_correction
needs_correction(akz, cover) ==
    Truthy(akz) /\ Truthy(cover.antragskennzeichen) /\ cover.antragskennzeichen # akz

\* the notice "Deckblatt S.<n+1>: '<old>' -> '<new>'"
notice(akz, cover) ==
    [page |-> cover.page_number + 1, old |-> cover.antragskennzeichen[1], new |-> akz[1]]

\* a page handed to writer.add_page: the document it comes from, its index
\* there, and whether the correction overlay was merged onto it
OutPage(src, n, overlay) == [src |-> src, page_number |-> n, overlay |-> overlay]

\* add_cover with the notice put in front of the list
add_cover_prepending(w, src, cover, akz) ==
    LET corr == needs_correction(akz, cover)
    IN [out |-> Append(w.out, OutPage(src, cover.page_number, corr)),
        pages_added |-> w.pages_added + 1,
        akz_mismatches |-> IF corr THEN <<notice(akz, cover)>> \o w.akz_mismatches
                           ELSE w.akz_mismatches]

\* _apply_akz_correction followed by writer.add_page and pages_added += 1,
\* on the writer state w = [out, pages_added, akz_mismatches]
add_cover(w, src, cover, akz) ==
    LET corr == needs_correction(akz, cover)
    IN [out |-> Append(w.out, OutPage(src, cover.page_number, corr)),
        pages_added |-> w.pages_added + 1,
        akz_mismatches |-> IF corr THEN Append(w.akz_mismatches, notice(akz, cover))
                           ELSE w.akz_mismatches]

\* for page_info in pkg.pages: writer.add_page(...); pages_added += 1
add_package(w, pkg) ==
    [w EXCEPT !.out = @ \o [i \in 1..Len(pkg.pages) |->
                              OutPage("kataster", pkg.pages[i].page_number, FALSE)],
              !.pages_added = @ + Len(pkg.pages)]

RECURSIVE add_packages(_, _, _)
add_packages(w, pk, refs) ==
    IF refs = <<>> THEN w
    ELSE add_packages(add_package(w, pk[refs[1]]), pk, Tail(refs))

\* an index in which the first page with a number keeps it
RECURSIVE cover_by_gb_first(_, _)
cover_by_gb_first(covers, n) ==
    IF n = 0 THEN <<>>
    ELSE LET d == cover_by_gb_first(covers, n - 1)
             c == covers[n]
         IN IF c.gb_number # None /\ c.gb_number[1] \notin DOMAIN d
            THEN [g \in DOMAIN d \cup {c.gb_number[1]} |->
                    IF g = c.gb_number[1] THEN c ELSE d[g]]
            ELSE d

\* cover_by_gb after the first n standard cover pages (a later page with the
\* same number replaces an earlier one)
RECURSIVE cover_by_gb(_, _)
cover_by_gb(covers, n) ==
    IF n = 0 THEN <<>>
    ELSE LET d == cover_by_gb(covers, n - 1)
             c == covers[n]
         IN IF c.gb_number # None
            THEN [g \in DOMAIN d \cup {c.gb_number[1]} |->
                    IF g = c.gb_number[1] THEN c ELSE d[g]]
            ELSE d

\* gb_groups after the first n standard packages
RECURSIVE gb_groups(_, _, _)
gb_groups(pk, std, n) ==
    IF n = 0 THEN <<>>
    ELSE LET d == gb_groups(pk, std, n - 1)
             k == pk[std[n]].primary_gb
         IN IF k # None
            THEN [g \in DOMAIN d \cup {k[1]} |->
                    IF g \in DOMAIN d
                    THEN IF g = k[1] THEN Append(d[g], std[n]) ELSE d[g]
                    ELSE <<std[n]>>]
            ELSE d

\* an assembly that forgets the packages without a key
no_gb_packages_dropped(pk, std) == <<>>

no_gb_packages(pk, std) == SelectSeq(std, LAMBDA r : pk[r].primary_gb = None)

\* the keys in descending order
RECURSIVE sorted_reverse(_)
sorted_reverse(S) ==
    IF S = {} THEN <<>>
    ELSE LET top == CHOOSE x \in S : \A y \in S : y <= x
         IN <<top>> \o sorted_reverse(S \ {top})

\* sorted(keys)
RECURSIVE sorted(_)
sorted(S) == IF S = {} THEN <<>> ELSE <<Min(S)>> \o sorted(S \ {Min(S)})

\* the key of the sort inside one group
group_key(pkg) ==
    <<IF pkg.lfd_nr # None THEN Fin(pkg.lfd_nr[1]) ELSE Inf,
      IF pkg.ffn # None THEN Fin(pkg.ffn[1]) ELSE Fin(0)>>

\* a group left in the order of standard_packages
sort_group_unsorted(pk, refs) == refs

sort_group(pk, refs) == list_sort(refs, [i \in 1..Len(refs) |-> group_key(pk[refs[i]])])

\* the loop over the keyed groups, for the keys gbs still to come
RECURSIVE add_groups(_, _, _, _, _, _)
add_groups(w, pk, groups, covers, akz, gbs) ==
    IF gbs = <<>> THEN w
    ELSE LET gb == gbs[1]
             w1 == IF gb \in DOMAIN covers
                   THEN add_cover(w, "cover_standard", covers[gb], akz)
                   ELSE w
         IN add_groups(add_packages(w1, pk, sort_group(pk, groups[gb])),
                       pk, groups, covers, akz, Tail(gbs))

\* sonder_cover without the wrap: past the last cover page, the last again
sonder_cover_clamped(covers, sonder_idx) ==
    covers[(IF sonder_idx < Len(covers) THEN sonder_idx ELSE Len(covers) - 1) + 1]

\* the special cover of the package that is sonder_idx-th in line
sonder_cover(covers, sonder_idx) == covers[(sonder_idx % Len(covers)) + 1]

\* the loop over the special packages
RECURSIVE add_sonder(_, _, _, _, _, _, _)
add_sonder(w, pk, refs, reader, covers, akz, sonder_idx) ==
    IF refs = <<>> THEN w
    ELSE IF Truthy(reader) /\ Truthy(covers)
    THEN add_sonder(add_package(add_cover(w, "cover_sonder",
                                          sonder_cover(covers, sonder_idx), akz),
                                pk[refs[1]]),
                    pk, Tail(refs), reader, covers, akz, sonder_idx + 1)
    ELSE add_sonder(add_package(w, pk[refs[1]]),
                    pk, Tail(refs), reader, covers, akz, sonder_idx)

\* a _create_combined_pdf that serializes whatever the writer holds
combined_pdf_unchecked(w) == Some(w.out)

\* what _create_combined_pdf returns for the writer state w
combined_pdf(w) == IF w.pages_added = 0 THEN None ELSE Some(w.out)

\* the writer state at the end of _create_combined_pdf, for a main extract
\* that was read
assemble(pk, std, snd, std_reader, std_covers, snd_reader, snd_covers, akz, mism) ==
    LET covers == IF Truthy(std_reader) THEN cover_by_gb(std_covers, Len(std_covers))
                  ELSE <<>>
        groups == gb_groups(pk, std, Len(std))
        w0 == [out |-> <<>>, pages_added |-> 0, akz_mismatches |-> mism]
        w1 == add_groups(w0, pk, groups, covers, akz, sorted(DOMAIN groups))
        w2 == add_packages(w1, pk, no_gb_packages(pk, std))
    IN add_sonder(w2, pk, snd, snd_reader, snd_covers, akz, 0)

(* ------------------- KatasterSorter: process_files --------------------- *)

\* a classification loop that keeps the first file of each role
RECURSIVE classify_first(_, _)
classify_first(fs, n) ==
    IF n = 0
    THEN [kataster_bytes |-> None, cover_std_bytes |-> None,
          cover_snd_bytes |-> None, debug_log |-> <<>>]
    ELSE LET prev == classify_first(fs, n - 1)
             type == detect_file_type(fs[n].data)
             logged == [prev EXCEPT !.debug_log = Append(@, <<fs[n].filename, type>>)]
         IN IF type = "kataster" /\ prev.kataster_bytes = None
            THEN [logged EXCEPT !.kataster_bytes = Some(fs[n].data)]
            ELSE IF type = "cover_standard" /\ prev.cover_std_bytes = None
            THEN [logged EXCEPT !.cover_std_bytes = Some(fs[n].data)]
            ELSE IF type = "cover_sonder" /\ prev.cover_snd_bytes = None
            THEN [logged EXCEPT !.cover_snd_bytes = Some(fs[n].data)]
            ELSE logged

\* the classification loop of process_files over the first n files
RECURSIVE classify(_, _)
classify(fs, n) ==
    IF n = 0
    THEN [kataster_bytes |-> None, cover_std_bytes |-> None,
          cover_snd_bytes |-> None, debug_log |-> <<>>]
    ELSE LET prev == classify(fs, n - 1)
             type == detect_file_type(fs[n].data)
             logged == [prev EXCEPT !.debug_log = Append(@, <<fs[n].filename, type>>)]
         IN IF type = "kataster"
            THEN [logged EXCEPT !.kataster_bytes = Some(fs[n].data)]
            ELSE IF type = "cover_standard"
            THEN [logged EXCEPT !.cover_std_bytes = Some(fs[n].data)]
            ELSE IF type = "cover_sonder"
            THEN [logged EXCEPT !.cover_snd_bytes = Some(fs[n].data)]
            ELSE logged

\* a process_files that goes on without a main extract
after_classification_unchecked(kb) == "classified"

\* lines 168-170: without a main extract the call raises ValueError
after_classification(kb) == IF Truthy(kb) THEN "classified" ELSE "ValueError"

\* the debug lines for the first 10 standard packages
package_lines(pk, std) ==
    [i \in 1..(IF Len(std) < 10 THEN Len(std) ELSE 10) |->
        <<"FFN", pk[std[i]].ffn, "GB", pk[std[i]].primary_gb, "lfd", pk[std[i]].lfd_nr>>]

(* ----------------------------- the state -------------------------------- *)

VARIABLES
    \* one KatasterSorter and the process_files call made on it
    files,                  \* file_bytes_list, the argument of the call
    pc,                     \* where the call stands
    pages, packages, standard_packages, sonderfall_packages,
    pdf_reader,
    cover_standard_reader, cover_standard_pages,
    cover_sonder_reader, cover_sonder_pages,
    kataster_akz, akz_mismatches, debug_log,
    kataster_bytes, cover_std_bytes, cover_snd_bytes,   \* locals of the call
    writer,                 \* the PdfWriter of _create_combined_pdf
    returned,               \* what the call returned (None while it runs)
    \* a stand-alone call of detect_file_type
    pdf_bytes,              \* its argument
    file_type,              \* what it returned
    \* the desktop host, KatasterSorterApp
    selected_files, result,
    process_btn, download_btn,
    file_label, status_label, progress_bar, stats_label, akz_label,
    debug_textbox, debug_visible,
    threads,                \* the worker threads started by _start_processing
    sorters,                \* the KatasterSorter instances the workers made
    after_queue,            \* callbacks posted with self.after(0, ...)
    saved_pdf               \* what _save_combined wrote last

sorter_vars ==
    <<pages, packages, standard_packages, sonderfall_packages, pdf_reader,
      cover_standard_reader, cover_standard_pages, cover_sonder_reader,
      cover_sonder_pages, kataster_akz, akz_mismatches, debug_log>>

call_vars == <<files, pc, kataster_bytes, cover_std_bytes, cover_snd_bytes, writer, returned>>

detect_vars == <<pdf_bytes, file_type>>

app_vars ==
    <<selected_files, result, process_btn, download_btn, file_label, status_label,
      progress_bar, stats_label, akz_label, debug_textbox, debug_visible,
      after_queue, saved_pdf>>

worker_vars == <<threads, sorters>>

host_vars == <<app_vars, worker_vars>>

\* everything outside the sorter and the call made on it
outside_vars == <<detect_vars, host_vars>>

vars == <<sorter_vars, call_vars, outside_vars>>

NewWriter == [out |-> <<>>, pages_added |-> 0]

\* KatasterSorter.__init__, and a call of process_files not yet begun
NewSorter ==
    /\ pages = <<>>
    /\ packages = <<>>
    /\ standard_packages = <<>>
    /\ sonderfall_packages = <<>>
    /\ pdf_reader = None
    /\ cover_standard_reader = None
    /\ cover_standard_pages = <<>>
    /\ cover_sonder_reader = None
    /\ cover_sonder_pages = <<>>
    /\ kataster_akz = None
    /\ akz_mismatches = <<>>
    /\ debug_log = <<>>
    /\ pc = "new"
    /\ kataster_bytes = None
    /\ cover_std_bytes = None
    /\ cover_snd_bytes = None
    /\ writer = NewWriter
    /\ returned = None

(* ------------------------------- inputs --------------------------------- *)

FfnVals == {0, 1}

GbLists == {<<>>, <<0>>, <<5>>, <<0, 5>>}

LfdVals == {1, 2}

AkzVals == {"2024_I_1", "2024_I_2"}

Opt(S) == {None} \cup {Some(v) : v \in S}

File(name, doc) == [filename |-> name, data |-> doc]

\* main extracts whose pages differ in case number and registry sheets
GroupingDocs(n) ==
    SeqsUpTo({KPage(f, g, None, None) : f \in Opt(FfnVals), g \in GbLists}, n)

\* main extracts whose pages differ in case number and sequence number, on
\* registry sheet 5 or on none
SequenceDocs(n) ==
    SeqsUpTo({KPage(f, g, l, None) :
                 f \in Opt(FfnVals), g \in {<<>>, <<5>>}, l \in Opt(LfdVals)}, n)

\* main extracts whose pages differ in tracking code, in packages of one
\* sheet (standard) and of two (special)
TrackingDocs(n) ==
    SeqsUpTo({KPage(f, g, None, a) :
                 f \in Opt({0}), g \in {<<5>>, <<0, 5>>}, a \in Opt(AkzVals)}, n)

\* a standard cover set for sheet 5 and a special cover set, one page each
StdCover(a) == File("std.pdf", <<CPage(Some(5), a)>>)

SndCover(a) == File("snd.pdf", <<SPage(a)>>)

\* the file lists handed to process_files, for main extracts of up to
\* ng, ns and nt pages
Inputs(ng, ns, nt) ==
    {<<File("k.pdf", d)>> : d \in GroupingDocs(ng)}
    \cup {<<File("k.pdf", d)>> : d \in SequenceDocs(ns)}
    \cup {<<File("k.pdf", d), StdCover(None)>> : d \in SequenceDocs(ns)}
    \cup {<<File("k.pdf", d), StdCover(a1), SndCover(a2)>> :
             d \in TrackingDocs(nt), a1 \in Opt(AkzVals), a2 \in Opt(AkzVals)}
    \cup {<<>>, <<StdCover(None)>>, <<SndCover(None)>>, <<StdCover(None), SndCover(None)>>}

(* ------------------------------- actions -------------------------------- *)

\* process_files, lines 141-170: reset, classification, the missing-extract error
Classify ==
    /\ pc = "new"
    /\ LET c == classify(files, Len(files))
       IN /\ kataster_bytes' = c.kataster_bytes
          /\ cover_std_bytes' = c.cover_std_bytes
          /\ cover_snd_bytes' = c.cover_snd_bytes
          /\ debug_log' = c.debug_log
          /\ pc' = after_classification(c.kataster_bytes)
    /\ pages' = <<>>
    /\ packages' = <<>>
    /\ standard_packages' = <<>>
    /\ sonderfall_packages' = <<>>
    /\ cover_standard_pages' = <<>>
    /\ cover_sonder_pages' = <<>>
    /\ kataster_akz' = None
    /\ akz_mismatches' = <<>>
    /\ UNCHANGED <<files, pdf_reader, cover_standard_reader, cover_sonder_reader,
                   writer, returned>>
    /\ UNCHANGED outside_vars

\* _extract_page_info and the page-count line
ExtractPageInfo ==
    /\ pc = "classified"
    /\ pdf_reader' = kataster_bytes
    /\ pages' = extract_page_info(kataster_bytes[1])
    /\ debug_log' = Append(debug_log, <<"Kataster", Len(pages')>>)
    /\ pc' = "extracted"
    /\ UNCHANGED <<files, packages, standard_packages, sonderfall_packages,
                   cover_standard_reader, cover_standard_pages, cover_sonder_reader,
                   cover_sonder_pages, kataster_akz, akz_mismatches,
                   kataster_bytes, cover_std_bytes, cover_snd_bytes, writer, returned>>
    /\ UNCHANGED outside_vars

\* _extract_kataster_akz and its line
ExtractKatasterAkz ==
    /\ pc = "extracted"
    /\ kataster_akz' = extract_kataster_akz(pages)
    /\ debug_log' = IF Truthy(kataster_akz')
                    THEN Append(debug_log, <<"AKZ", kataster_akz'[1]>>)
                    ELSE debug_log
    /\ pc' = "akz"
    /\ UNCHANGED <<files, pages, packages, standard_packages, sonderfall_packages,
                   pdf_reader, cover_standard_reader, cover_standard_pages,
                   cover_sonder_reader, cover_sonder_pages, akz_mismatches,
                   kataster_bytes, cover_std_bytes, cover_snd_bytes, writer, returned>>
    /\ UNCHANGED outside_vars

\* _group_by_ffn
GroupByFfn ==
    /\ pc = "akz"
    /\ packages' = packages \o group_by_ffn(pages)
    /\ pc' = "grouped"
    /\ UNCHANGED <<files, pages, standard_packages, sonderfall_packages, pdf_reader,
                   cover_standard_reader, cover_standard_pages, cover_sonder_reader,
                   cover_sonder_pages, kataster_akz, akz_mismatches, debug_log,
                   kataster_bytes, cover_std_bytes, cover_snd_bytes, writer, returned>>
    /\ UNCHANGED outside_vars

\* _analyze_packages
AnalyzePackages ==
    /\ pc = "grouped"
    /\ LET a == analyze_packages(packages, Len(packages))
       IN /\ packages' = a.packages
          /\ standard_packages' = standard_packages \o a.standard_packages
          /\ sonderfall_packages' = sonderfall_packages \o a.sonderfall_packages
    /\ pc' = "analyzed"
    /\ UNCHANGED <<files, pages, pdf_reader, cover_standard_reader,
                   cover_standard_pages, cover_sonder_reader, cover_sonder_pages,
                   kataster_akz, akz_mismatches, debug_log,
                   kataster_bytes, cover_std_bytes, cover_snd_bytes, writer, returned>>
    /\ UNCHANGED outside_vars

\* _sort_packages and the package lines
SortPackages ==
    /\ pc = "analyzed"
    /\ standard_packages' = sort_packages(packages, standard_packages)
    /\ debug_log' = Append(debug_log,
                           <<"Pakete", Len(standard_packages'), Len(sonderfall_packages)>>)
                    \o package_lines(packages, standard_packages')
    /\ pc' = "sorted"
    /\ UNCHANGED <<files, pages, packages, sonderfall_packages, pdf_reader,
                   cover_standard_reader, cover_standard_pages, cover_sonder_reader,
                   cover_sonder_pages, kataster_akz, akz_mismatches,
                   kataster_bytes, cover_std_bytes, cover_snd_bytes, writer, returned>>
    /\ UNCHANGED outside_vars

\* lines 194-203: _parse_standard_covers and _parse_sonder_covers, each only
\* for a document that was supplied
ParseCovers ==
    /\ pc = "sorted"
    /\ IF Truthy(cover_std_bytes)
       THEN /\ cover_standard_reader' = cover_std_bytes
            /\ cover_standard_pages' =
                   cover_standard_pages \o parse_standard_covers(cover_std_bytes[1])
       ELSE UNCHANGED <<cover_standard_reader, cover_standard_pages>>
    /\ IF Truthy(cover_snd_bytes)
       THEN /\ cover_sonder_reader' = cover_snd_bytes
            /\ cover_sonder_pages' =
                   cover_sonder_pages \o parse_sonder_covers(cover_snd_bytes[1])
       ELSE UNCHANGED <<cover_sonder_reader, cover_sonder_pages>>
    /\ debug_log' =
           (debug_log
            \o (IF Truthy(cover_std_bytes)
                THEN << <<"Standard-Deckbl.", Len(cover_standard_pages'),
                          [i \in 1..Len(cover_standard_pages') |->
                              cover_standard_pages'[i].gb_number]>> >>
                ELSE <<>>))
           \o (IF Truthy(cover_snd_bytes)
               THEN << <<"Sonderf.-Deckbl.", Len(cover_sonder_pages')>> >>
               ELSE <<>>)
    /\ pc' = "covers"
    /\ UNCHANGED <<files, pages, packages, standard_packages, sonderfall_packages,
                   pdf_reader, kataster_akz, akz_mismatches,
                   kataster_bytes, cover_std_bytes, cover_snd_bytes, writer, returned>>
    /\ UNCHANGED outside_vars

\* the report dict process_files returns
report(ps, pk, std, snd, std_covers, snd_covers, akz, mism, pdf, log) ==
    [total_pages |-> Len(ps),
     total_packages |-> Len(pk),
     standard_count |-> Len(std),
     sonderfall_count |-> Len(snd),
     cover_standard_count |-> Len(std_covers),
     cover_sonder_count |-> Len(snd_covers),
     kataster_akz |-> akz,
     akz_mismatches |-> mism,
     combined_pdf |-> pdf,
     debug_log |-> log]

\* _create_combined_pdf and the return of process_files
CreateCombinedPdf ==
    /\ pc = "covers"
    /\ IF ~Truthy(pdf_reader)
       THEN /\ UNCHANGED <<writer, akz_mismatches, debug_log>>
            /\ returned' = Some(report(pages, packages, standard_packages,
                                       sonderfall_packages, cover_standard_pages,
                                       cover_sonder_pages, kataster_akz,
                                       akz_mismatches, None, debug_log))
       ELSE LET w == assemble(packages, standard_packages, sonderfall_packages,
                              cover_standard_reader, cover_standard_pages,
                              cover_sonder_reader, cover_sonder_pages,
                              kataster_akz, akz_mismatches)
            IN /\ writer' = [out |-> w.out, pages_added |-> w.pages_added]
               /\ akz_mismatches' = w.akz_mismatches
               /\ debug_log' = Append(debug_log, <<"Output", w.pages_added>>)
               /\ returned' = Some(report(pages, packages, standard_packages,
                                          sonderfall_packages, cover_standard_pages,
                                          cover_sonder_pages, kataster_akz,
                                          akz_mismatches', combined_pdf(w), debug_log'))
    /\ pc' = "done"
    /\ UNCHANGED <<files, pages, packages, standard_packages, sonderfall_packages,
                   pdf_reader, cover_standard_reader, cover_standard_pages,
                   cover_sonder_reader, cover_sonder_pages, kataster_akz,
                   kataster_bytes, cover_std_bytes, cover_snd_bytes>>
    /\ UNCHANGED outside_vars

\* no stand-alone detector call
NoDetect == pdf_bytes = <<>> /\ file_type = None

\* KatasterSorterApp.__init__ and _create_ui
NewApp ==
    /\ selected_files = <<>>
    /\ result = None
    /\ process_btn = "disabled"
    /\ download_btn = "disabled"
    /\ file_label = <<>>
    /\ status_label = "Bereit"
    /\ progress_bar = 0
    /\ stats_label = None
    /\ akz_label = None
    /\ debug_textbox = <<>>
    /\ debug_visible = FALSE
    /\ threads = <<>>
    /\ sorters = <<>>
    /\ after_queue = <<>>
    /\ saved_pdf = None

Init ==
    /\ NewSorter
    /\ files \in Inputs(MaxPages, MaxSequencePages, MaxTrackingPages)
    /\ NoDetect
    /\ NewApp

Next ==
    \/ Classify
    \/ ExtractPageInfo
    \/ ExtractKatasterAkz
    \/ GroupByFfn
    \/ AnalyzePackages
    \/ SortPackages
    \/ ParseCovers
    \/ CreateCombinedPdf

Spec == Init /\ [][Next]_vars

(* ------------------- runs on cover sets and file lists ------------------ *)

\* main extracts of special packages (sheets 0 and 5) and of case 1 on
\* sheet 5, every page with the tracking code 2024_I_2
SpecialDocs(n) ==
    SeqsUpTo({KPage(f, <<0, 5>>, None, Some("2024_I_2")) : f \in Opt(FfnVals)}
                 \cup {KPage(Some(1), <<5>>, None, Some("2024_I_2"))}, n)

\* special cover sets of 1..n pages, with the code 2024_I_1 or none
SonderCoverSets(n) ==
    {File("snd.pdf", d) : d \in SeqsUpTo({SPage(a) : a \in Opt({"2024_I_1"})}, n) \ {<<>>}}

\* a main extract and no special cover set or one
SpecialRuns(np, nc) ==
    {<<File("k.pdf", d)>> : d \in SpecialDocs(np)}
    \cup {<<File("k.pdf", d), c>> : d \in SpecialDocs(np), c \in SonderCoverSets(nc)}

\* a main extract of case 0 on sheet 5 and case 1 on sheet 0
TwoSheets ==
    File("k.pdf", <<KPage(Some(0), <<5>>, None, Some("2024_I_2")),
                    KPage(Some(1), <<0>>, None, None)>>)

\* pages of a standard cover set: for sheet 5 with and without a code, for
\* sheet 0, with the sheet named by the plain label only, and with no sheet
StandardCoverPages ==
    {CPage(Some(5), None), CPage(Some(5), Some("2024_I_1")), CPage(Some(0), None),
     PageText(None, <<5>>, None, None, None, None, FALSE), CPage(None, None)}

\* the main extract of two sheets and a standard cover set of 1..n pages
StandardCoverRuns(n) ==
    {<<TwoSheets, File("std.pdf", d)>> : d \in SeqsUpTo(StandardCoverPages, n) \ {<<>>}}

\* two files of each role; b.pdf carries no marker at all
RoleFiles ==
    {File("a.pdf", <<KPage(Some(0), <<5>>, None, Some("2024_I_1")),
                     KPage(Some(1), <<0, 5>>, None, None)>>),
     File("b.pdf", <<BlankPage>>),
     File("c.pdf", <<CPage(Some(5), Some("2024_I_2"))>>),
     File("d.pdf", <<CPage(Some(0), None), CPage(Some(5), None)>>),
     File("e.pdf", <<SPage(Some("2024_I_2"))>>),
     File("f.pdf", <<SPage(None), SPage(None)>>)}

\* file lists of up to n of these files
RoleRuns(n) == SeqsUpTo(RoleFiles, n)

\* main extracts of one sheet whose pages state the sequence numbers 0 and 1
LfdRuns(n) ==
    {<<File("k.pdf", d)>> :
        d \in SeqsUpTo({KPage(f, <<5>>, l, None) : f \in Opt({0}), l \in Opt({0, 1})}, n)}

SetInputs(np, nsnd, nstd, nf) ==
    SpecialRuns(np, nsnd) \cup StandardCoverRuns(nstd) \cup RoleRuns(nf) \cup LfdRuns(np)

InitSets ==
    /\ NewSorter
    /\ files \in SetInputs(MaxPages, MaxSonderCovers, MaxStandardCovers, MaxFiles)
    /\ NoDetect
    /\ NewApp

SpecSets == InitSets /\ [][Next]_vars

(* ----------------------- the detector on its own ------------------------ *)

\* pages carrying any of the three markers the detector looks for
MarkerPages ==
    {PageText(f, <<>>, None, None, None, c, m) :
        f \in Opt({0}), c \in Opt({5}), m \in BOOLEAN}

\* the documents of exactly n such pages
DetectDocs(n) == [1..n -> MarkerPages]

DetectFileType ==
    /\ file_type = None
    /\ file_type' = Some(detect_file_type(pdf_bytes))
    /\ UNCHANGED <<pdf_bytes, sorter_vars, call_vars, host_vars>>

InitDetect ==
    /\ NewSorter
    /\ NewApp
    /\ files = <<>>
    /\ \E n \in 0..MaxDetectPages : pdf_bytes \in DetectDocs(n)
    /\ file_type = None

NextDetect == DetectFileType

SpecDetect == InitDetect /\ [][NextDetect]_vars

(* -------------------- process_files as one function --------------------- *)

\* the fields of a sorter right after the reset and the classification loop
\* of process_files (lines 141-166)
begun(fs) ==
    [pages |-> <<>>, packages |-> <<>>, akz_mismatches |-> <<>>,
     debug_log |-> classify(fs, Len(fs)).debug_log]

\* whether process_files raises ValueError on these files
raises(fs) == after_classification(classify(fs, Len(fs)).kataster_bytes) = "ValueError"

\* process_files from the classification to the return, for files with a
\* main extract: the sorter's fields and the report
process_files(fs) ==
    LET c   == classify(fs, Len(fs))
        ps  == extract_page_info(c.kataster_bytes[1])
        akz == extract_kataster_akz(ps)
        a   == analyze_packages(group_by_ffn(ps), Len(group_by_ffn(ps)))
        std == sort_packages(a.packages, a.standard_packages)
        sc  == IF Truthy(c.cover_std_bytes)
               THEN parse_standard_covers(c.cover_std_bytes[1]) ELSE <<>>
        nc  == IF Truthy(c.cover_snd_bytes)
               THEN parse_sonder_covers(c.cover_snd_bytes[1]) ELSE <<>>
        log == ((((c.debug_log
                   \o << <<"Kataster", Len(ps)>> >>)
                  \o (IF Truthy(akz) THEN << <<"AKZ", akz[1]>> >> ELSE <<>>))
                 \o (<< <<"Pakete", Len(std), Len(a.sonderfall_packages)>> >>
                     \o package_lines(a.packages, std)))
                \o (IF Truthy(c.cover_std_bytes)
                    THEN << <<"Standard-Deckbl.", Len(sc),
                              [i \in 1..Len(sc) |-> sc[i].gb_number]>> >>
                    ELSE <<>>))
               \o (IF Truthy(c.cover_snd_bytes)
                   THEN << <<"Sonderf.-Deckbl.", Len(nc)>> >> ELSE <<>>)
        w   == assemble(a.packages, std, a.sonderfall_packages, c.cover_std_bytes, sc,
                        c.cover_snd_bytes, nc, akz, <<>>)
        out == Append(log, <<"Output", w.pages_added>>)
    IN [pages |-> ps, packages |-> a.packages, akz_mismatches |-> w.akz_mismatches,
        debug_log |-> out,
        returned |-> report(ps, a.packages, std, a.sonderfall_packages, sc, nc, akz,
                            w.akz_mismatches, combined_pdf(w), out)]

\* the function agrees with the call taken step by step
ProcessFilesIsTheCall ==
    /\ pc = "ValueError" <=> (pc # "new" /\ raises(files))
    /\ pc \in {"classified", "ValueError"} => debug_log = begun(files).debug_log
    /\ pc = "done" =>
          /\ returned = Some(process_files(files).returned)
          /\ pages = process_files(files).pages
          /\ packages = process_files(files).packages
          /\ akz_mismatches = process_files(files).akz_mismatches
          /\ debug_log = process_files(files).debug_log

(* --------------------------- the desktop host --------------------------- *)

\* the files on disk the user can choose from
Disk(path) ==
    IF path = "k.pdf" THEN <<KPage(Some(0), <<5>>, None, Some("2024_I_2"))>>
    ELSE IF path = "std.pdf" THEN <<CPage(Some(5), Some("2024_I_1"))>>
    ELSE <<>>

\* what the file dialog can return; <<>> is a cancelled dialog
Selections == {<<>>, <<"k.pdf", "std.pdf">>, <<"std.pdf">>, <<"empty.pdf">>}

\* _reset_results sets these; the caller sets status_label and progress_bar
\* itself afterwards or leaves them as _reset_results set them
ResetResults ==
    /\ stats_label' = None
    /\ akz_label' = None
    /\ debug_textbox' = <<>>
    /\ download_btn' = "disabled"
    /\ result' = None

\* _select_files with the dialog returning paths
SelectFiles ==
    \E paths \in Selections :
        /\ IF Truthy(paths)
           THEN /\ selected_files' = paths
                /\ file_label' = paths
                /\ process_btn' = "normal"
                /\ ResetResults
                /\ status_label' = "Bereit"
                /\ progress_bar' = 0
           ELSE UNCHANGED <<selected_files, file_label, process_btn, stats_label,
                            akz_label, debug_textbox, download_btn, result,
                            status_label, progress_bar>>
        /\ UNCHANGED <<debug_visible, after_queue, saved_pdf, worker_vars>>
        /\ UNCHANGED <<sorter_vars, call_vars, detect_vars>>

\* a thread about to run _process
NewThread == [pc |-> "started", sorter |-> 0, file_data |-> <<>>]

\* _start_processing, the command of the process button
StartProcessing ==
    /\ process_btn = "normal"
    /\ Len(threads) < MaxRuns
    /\ process_btn' = "disabled"
    /\ ResetResults
    /\ status_label' = "Erkenne Dateitypen..."
    /\ progress_bar' = 1
    /\ threads' = Append(threads, NewThread)
    /\ UNCHANGED <<selected_files, file_label, debug_visible, after_queue, saved_pdf,
                   sorters>>
    /\ UNCHANGED <<sorter_vars, call_vars, detect_vars>>

\* a sorter as __init__ leaves it, used by no run yet
NewInstance ==
    [pages |-> <<>>, packages |-> <<>>, akz_mismatches |-> <<>>, debug_log |-> <<>>,
     users |-> {}]

\* a host with one sorter made on first use and kept for every later run
reuse_sorter(ss) ==
    [id |-> 1, sorters |-> IF ss = <<>> THEN <<NewInstance>> ELSE ss]

\* sorter = KatasterSorter() in _process: a new instance for this run
construct_sorter(ss) == [id |-> Len(ss) + 1, sorters |-> Append(ss, NewInstance)]

\* _process, line 234
Construct(t) ==
    /\ threads[t].pc = "started"
    /\ LET made == construct_sorter(sorters)
       IN /\ sorters' = made.sorters
          /\ threads' = [threads EXCEPT ![t].pc = "constructed", ![t].sorter = made.id]
    /\ UNCHANGED app_vars
    /\ UNCHANGED <<sorter_vars, call_vars, detect_vars>>

\* _process, lines 236-243: the files are read and the progress is posted
ReadFiles(t) ==
    /\ threads[t].pc = "constructed"
    /\ threads' = [threads EXCEPT
                      ![t].pc = "read",
                      ![t].file_data = [i \in 1..Len(selected_files) |->
                                           File(selected_files[i], Disk(selected_files[i]))]]
    /\ after_queue' = Append(after_queue, <<"_update_progress", 3, "Analysiere und sortiere...">>)
    /\ UNCHANGED <<selected_files, result, process_btn, download_btn, file_label,
                   status_label, progress_bar, stats_label, akz_label, debug_textbox,
                   debug_visible, saved_pdf, sorters>>
    /\ UNCHANGED <<sorter_vars, call_vars, detect_vars>>

\* sorter.process_files is entered: reset and classification; without a
\* main extract it raises and the handler posts _show_error
EnterProcessFiles(t) ==
    /\ threads[t].pc = "read"
    /\ LET id == threads[t].sorter
           b  == begun(threads[t].file_data)
       IN sorters' = [sorters EXCEPT ![id] =
                         [pages |-> b.pages, packages |-> b.packages,
                          akz_mismatches |-> b.akz_mismatches, debug_log |-> b.debug_log,
                          users |-> sorters[id].users \cup {t}]]
    /\ IF raises(threads[t].file_data)
       THEN /\ threads' = [threads EXCEPT ![t].pc = "finished"]
            /\ after_queue' = Append(after_queue, <<"_show_error", "ValueError">>)
       ELSE /\ threads' = [threads EXCEPT ![t].pc = "in_call"]
            /\ UNCHANGED after_queue
    /\ UNCHANGED <<selected_files, result, process_btn, download_btn, file_label,
                   status_label, progress_bar, stats_label, akz_label, debug_textbox,
                   debug_visible, saved_pdf>>
    /\ UNCHANGED <<sorter_vars, call_vars, detect_vars>>

\* sorter.process_files returns: self.result is set, the progress and
\* _show_results are posted
LeaveProcessFiles(t) ==
    /\ threads[t].pc = "in_call"
    /\ LET id == threads[t].sorter
           r  == process_files(threads[t].file_data)
       IN /\ sorters' = [sorters EXCEPT ![id] =
                            [pages |-> r.pages, packages |-> r.packages,
                             akz_mismatches |-> sorters[id].akz_mismatches
                                                    \o r.akz_mismatches,
                             debug_log |-> r.debug_log,
                             users |-> sorters[id].users \cup {t}]]
          /\ result' = Some(r.returned)
    /\ threads' = [threads EXCEPT ![t].pc = "finished"]
    /\ after_queue' = (after_queue \o << <<"_update_progress", 10, "Fertig!">> >>)
                          \o << <<"_show_results">> >>
    /\ UNCHANGED <<selected_files, process_btn, download_btn, file_label,
                   status_label, progress_bar, stats_label, akz_label, debug_textbox,
                   debug_visible, saved_pdf>>
    /\ UNCHANGED <<sorter_vars, call_vars, detect_vars>>

\* the main loop runs _update_progress
UpdateProgress ==
    /\ after_queue # <<>>
    /\ Head(after_queue)[1] = "_update_progress"
    /\ progress_bar' = Head(after_queue)[2]
    /\ status_label' = Head(after_queue)[3]
    /\ after_queue' = Tail(after_queue)
    /\ UNCHANGED <<selected_files, result, process_btn, download_btn, file_label,
                   stats_label, akz_label, debug_textbox, debug_visible, saved_pdf,
                   worker_vars>>
    /\ UNCHANGED <<sorter_vars, call_vars, detect_vars>>

\* the main loop runs _show_error
ShowError ==
    /\ after_queue # <<>>
    /\ Head(after_queue)[1] = "_show_error"
    /\ status_label' = "Fehler"
    /\ debug_textbox' = <<Head(after_queue)[2]>>
    /\ debug_visible' = TRUE
    /\ process_btn' = "normal"
    /\ after_queue' = Tail(after_queue)
    /\ UNCHANGED <<selected_files, result, download_btn, file_label, progress_bar,
                   stats_label, akz_label, saved_pdf, worker_vars>>
    /\ UNCHANGED <<sorter_vars, call_vars, detect_vars>>

\* the main loop runs _show_results, which reads self.result as it is now
ShowResults ==
    /\ after_queue # <<>>
    /\ Head(after_queue)[1] = "_show_results"
    /\ after_queue' = Tail(after_queue)
    /\ IF ~Truthy(result)
       THEN UNCHANGED <<stats_label, akz_label, debug_textbox, status_label,
                        download_btn, debug_visible, process_btn>>
       ELSE LET r == result[1]
            IN /\ stats_label' = Some(<<r.total_pages, r.standard_count,
                                        r.sonderfall_count, r.cover_standard_count,
                                        r.cover_sonder_count>>)
               /\ akz_label' = IF Truthy(r.kataster_akz)
                               THEN Some(<<r.kataster_akz[1], Len(r.akz_mismatches)>>)
                               ELSE akz_label
               /\ debug_textbox' = r.debug_log
               /\ IF Truthy(r.combined_pdf)
                  THEN /\ status_label' = "Fertig!"
                       /\ download_btn' = "normal"
                       /\ UNCHANGED debug_visible
                  ELSE /\ status_label' = "Keine Output-Daten"
                       /\ debug_visible' = TRUE
                       /\ UNCHANGED download_btn
               /\ process_btn' = "normal"
    /\ UNCHANGED <<selected_files, result, file_label, progress_bar, saved_pdf,
                   worker_vars>>
    /\ UNCHANGED <<sorter_vars, call_vars, detect_vars>>

\* _save_combined, the command of the save button, with the file dialog
\* answered or cancelled
SaveCombined ==
    /\ download_btn = "normal"
    /\ \E answered \in BOOLEAN :
          saved_pdf' = IF Truthy(result) /\ Truthy(result[1].combined_pdf) /\ answered
                       THEN result[1].combined_pdf
                       ELSE saved_pdf
    /\ UNCHANGED <<selected_files, result, process_btn, download_btn, file_label,
                   status_label, progress_bar, stats_label, akz_label, debug_textbox,
                   debug_visible, after_queue, worker_vars>>
    /\ UNCHANGED <<sorter_vars, call_vars, detect_vars>>

\* _toggle_debug, the command of the debug button
ToggleDebug ==
    /\ debug_visible' = ~debug_visible
    /\ UNCHANGED <<selected_files, result, process_btn, download_btn, file_label,
                   status_label, progress_bar, stats_label, akz_label, debug_textbox,
                   after_queue, saved_pdf, worker_vars>>
    /\ UNCHANGED <<sorter_vars, call_vars, detect_vars>>

InitHost ==
    /\ NewSorter
    /\ files = <<>>
    /\ NoDetect
    /\ NewApp

NextHost ==
    \/ SelectFiles
    \/ StartProcessing
    \/ \E t \in 1..Len(threads) : Construct(t)
    \/ \E t \in 1..Len(threads) : ReadFiles(t)
    \/ \E t \in 1..Len(threads) : EnterProcessFiles(t)
    \/ \E t \in 1..Len(threads) : LeaveProcessFiles(t)
    \/ UpdateProgress
    \/ ShowError
    \/ ShowResults
    \/ SaveCombined
    \/ ToggleDebug

SpecHost == InitHost /\ [][NextHost]_vars

(* ------------------------------- claims --------------------------------- *)

Grouped == pc \in {"grouped", "analyzed", "sorted", "covers", "done"}

Analyzed == pc \in {"analyzed", "sorted", "covers", "done"}

\* the places <<k, j>> at which the packages hold the page with index n
PlacesOf(n) ==
    {kj \in (1..Len(packages)) \X (1..Len(pages)) :
        /\ kj[2] <= Len(packages[kj[1]].pages)
        /\ packages[kj[1]].pages[kj[2]].page_number = n}

\* C1: once _group_by_ffn has run, every page of self.pages is held by
\* exactly one package, exactly once, and the packages hold no other page.
C1_Partition ==
    Grouped =>
        /\ \A i \in 1..Len(pages) : Cardinality(PlacesOf(pages[i].page_number)) = 1
        /\ \A k \in 1..Len(packages) : \A j \in 1..Len(packages[k].pages) :
               /\ packages[k].pages[j].page_number \in 0..(Len(pages) - 1)
               /\ packages[k].pages[j] = pages[packages[k].pages[j].page_number + 1]

\* a case number that comes back after another case's page: three pages in
\* two packages, one of them holding the first and the third page
C1_Witness ==
    /\ pc = "grouped"
    /\ Len(pages) = 3
    /\ pages[1].ffn # None
    /\ pages[1].ffn = pages[3].ffn
    /\ \E k \in 1..Len(packages) :
          /\ Len(packages[k].pages) = 2
          /\ packages[k].pages[1].page_number = 0
          /\ packages[k].pages[2].page_number = 2
    /\ \E k \in 1..Len(packages) :
          /\ Len(packages[k].pages) = 1
          /\ packages[k].pages[1].page_number = 1

\* the registry sheets named on the member pages of package k
SheetsOf(k) ==
    UNION {pages[packages[k].pages[j].page_number + 1].gb_numbers :
              j \in 1..Len(packages[k].pages)}

\* C2: once _analyze_packages has run, a package is special exactly when
\* its member pages name more than one registry sheet, and it is in
\* sonderfall_packages exactly when special, in standard_packages exactly
\* when not.
C2_SpecialIffSeveralSheets ==
    Analyzed =>
        \A k \in 1..Len(packages) :
            /\ packages[k].is_sonderfall <=> Cardinality(SheetsOf(k)) > 1
            /\ (k \in Range(sonderfall_packages)) <=> packages[k].is_sonderfall
            /\ (k \in Range(standard_packages)) <=> ~packages[k].is_sonderfall

\* a package made special by two pages naming one sheet each, beside a
\* standard package
C2_Witness ==
    /\ pc = "analyzed"
    /\ \E k \in 1..Len(packages) :
          /\ packages[k].is_sonderfall
          /\ \A j \in 1..Len(packages[k].pages) :
                 Cardinality(packages[k].pages[j].gb_numbers) = 1
          /\ k \in Range(sonderfall_packages)
    /\ \E k \in 1..Len(packages) :
          /\ ~packages[k].is_sonderfall
          /\ k \in Range(standard_packages)

\* C3: once _analyze_packages has run, primary_gb is set exactly when the
\* package is not special and its sheet set is not empty, and then it is the
\* set's only element; a package with an empty set is standard without a key.
C3_PrimaryKey ==
    Analyzed =>
        \A k \in 1..Len(packages) :
            /\ packages[k].primary_gb # None
                   <=> (~packages[k].is_sonderfall /\ packages[k].unique_gbs # {})
            /\ packages[k].primary_gb # None
                   => packages[k].unique_gbs = {packages[k].primary_gb[1]}
            /\ packages[k].unique_gbs = {}
                   => (~packages[k].is_sonderfall /\ packages[k].primary_gb = None)

\* a package with key 0 beside a package without any sheet
C3_Witness ==
    /\ pc = "analyzed"
    /\ \E k \in 1..Len(packages) :
          packages[k].primary_gb = Some(0) /\ packages[k].unique_gbs = {0}
    /\ \E k \in 1..Len(packages) :
          /\ packages[k].unique_gbs = {}
          /\ packages[k].primary_gb = None
          /\ k \in Range(standard_packages)

\* the position of reference r in the list s
PosIn(s, r) == CHOOSE i \in 1..Len(s) : s[i] = r

\* C4: _sort_packages leaves standard_packages a permutation of what it
\* was, with keys non-decreasing, packages without a key after all packages
\* with one, and packages of equal key (or both without) in their old order.
C4_StableSort ==
    [][(pc = "analyzed" /\ pc' = "sorted") =>
        LET old == standard_packages
            new == standard_packages'
            key(r) == packages[r].primary_gb
        IN /\ Len(new) = Len(old)
           /\ \A r \in Range(old) :
                  Cardinality({i \in 1..Len(new) : new[i] = r})
                      = Cardinality({i \in 1..Len(old) : old[i] = r})
           /\ Range(new) = Range(old)
           /\ \A i \in 1..Len(new) : \A j \in 1..Len(new) :
                  i < j =>
                     /\ key(new[i]) = None => key(new[j]) = None
                     /\ (key(new[i]) # None /\ key(new[j]) # None)
                            => key(new[i])[1] <= key(new[j])[1]
                     /\ key(new[i]) = key(new[j])
                            => PosIn(old, new[i]) < PosIn(old, new[j])]_vars

\* three standard packages sorted: the one without a key was first and is
\* now last, behind two of equal key that kept their order
C4_Witness ==
    /\ pc = "sorted"
    /\ Len(standard_packages) = 3
    /\ packages[standard_packages[3]].primary_gb = None
    /\ standard_packages[3] = 1
    /\ packages[standard_packages[1]].primary_gb = packages[standard_packages[2]].primary_gb
    /\ standard_packages[1] < standard_packages[2]

\* whether one of the first five pages of the document handed to the
\* detector carries a marker
SampledFfn == \E i \in 1..Len(pdf_bytes) : i <= 5 /\ pdf_bytes[i].ffn_m # None

SampledMehrere == \E i \in 1..Len(pdf_bytes) : i <= 5 /\ pdf_bytes[i].mehrere_m

SampledGbCover == \E i \in 1..Len(pdf_bytes) : i <= 5 /\ pdf_bytes[i].gb_cover_m # None

\* C5: detect_file_type answers from the first 5 pages alone: 'kataster'
\* if one of them carries the case-number marker, else 'cover_sonder' if one
\* carries the 'mehrere Grundbuchbl' marker, else 'cover_standard' if one
\* carries the sheet-cover label, else 'kataster'.
C5_DetectPriority ==
    file_type # None =>
        file_type[1] = (IF SampledFfn THEN "kataster"
                        ELSE IF SampledMehrere THEN "cover_sonder"
                        ELSE IF SampledGbCover THEN "cover_standard"
                        ELSE "kataster")

\* a six-page document found to be a special cover set although a sampled
\* page carries the sheet-cover label and the sixth page a case number
C5_Witness ==
    /\ file_type = Some("cover_sonder")
    /\ Len(pdf_bytes) = 6
    /\ pdf_bytes[6].ffn_m # None
    /\ SampledGbCover

\* no file of the list is a main extract
NoMainSupplied == \A i \in 1..Len(files) : detect_file_type(files[i].data) # "kataster"

\* C6: when no supplied file is detected as main extract, process_files ends
\* in ValueError: it returns nothing, and neither extraction, grouping,
\* classification, sorting, cover parsing nor assembly took place.
C6_NoMainIsFatal ==
    (NoMainSupplied /\ pc # "new") =>
        /\ pc = "ValueError"
        /\ returned = None
        /\ pdf_reader = None
        /\ pages = <<>>
        /\ packages = <<>>
        /\ standard_packages = <<>>
        /\ sonderfall_packages = <<>>
        /\ cover_standard_pages = <<>>
        /\ cover_sonder_pages = <<>>
        /\ writer = NewWriter

\* the call failed although a standard and a special cover set were supplied
C6_Witness ==
    /\ pc = "ValueError"
    /\ NoMainSupplied
    /\ cover_std_bytes # None
    /\ cover_snd_bytes # None

\* C7: _create_combined_pdf returns None whenever no page was emitted, and
\* returns the document only when at least one page was: never a document
\* of zero pages.
C7_NoEmptyDocument ==
    pc = "done" =>
        /\ Len(writer.out) = 0 => returned[1].combined_pdf = None
        /\ returned[1].combined_pdf # None
               => (Len(writer.out) >= 1 /\ returned[1].combined_pdf[1] = writer.out)

\* a run on a main extract without pages and two cover sets: nothing is
\* emitted and the output is absent
C7_Witness ==
    /\ pc = "done"
    /\ Len(writer.out) = 0
    /\ returned[1].combined_pdf = None
    /\ Len(cover_standard_pages) > 0
    /\ Len(cover_sonder_pages) > 0

\* the positions of the output that hold a page of package k
PosOfPackage(k) ==
    {i \in 1..Len(writer.out) :
        /\ writer.out[i].src = "kataster"
        /\ \E j \in 1..Len(packages[k].pages) :
               packages[k].pages[j].page_number = writer.out[i].page_number}

\* the packages whose primary key is g
GroupOf(g) == {k \in 1..Len(packages) : packages[k].primary_gb = Some(g)}

PrimaryKeys ==
    {packages[k].primary_gb[1] : k \in {n \in 1..Len(packages) : packages[n].primary_gb # None}}

\* the positions of the output that hold a standard cover for sheet g
StdCoverPos(g) ==
    {i \in 1..Len(writer.out) :
        /\ writer.out[i].src = "cover_standard"
        /\ cover_standard_pages[writer.out[i].page_number + 1].gb_number = Some(g)}

\* package a goes before package b of the same group: the smaller sequence
\* number, an absent one last, and on a tie the smaller case number
GoesBefore(a, b) ==
    \/ /\ packages[a].lfd_nr # None
       /\ packages[b].lfd_nr = None \/ packages[a].lfd_nr[1] < packages[b].lfd_nr[1]
    \/ /\ packages[a].lfd_nr = packages[b].lfd_nr
       /\ packages[a].ffn # None
       /\ packages[b].ffn # None
       /\ packages[a].ffn[1] < packages[b].ffn[1]

CoverPos == {i \in 1..Len(writer.out) : writer.out[i].src # "kataster"}

\* the cover page record behind output position i
CoverAt(i) ==
    IF writer.out[i].src = "cover_standard"
    THEN cover_standard_pages[writer.out[i].page_number + 1]
    ELSE cover_sonder_pages[writer.out[i].page_number + 1]

\* the main extract's code and the code of the cover at i are both there
\* and differ
CodesDiffer(i) ==
    /\ kataster_akz # None
    /\ CoverAt(i).antragskennzeichen # None
    /\ CoverAt(i).antragskennzeichen # kataster_akz

\* C9: an emitted cover carries the overlay, and adds one notice to
\* akz_mismatches, exactly when the main extract's tracking code and the
\* cover's are both present and differ; otherwise the cover is emitted as
\* it is and akz_mismatches stays as it was.
C9_CorrectionRule ==
    /\ pc # "done" => akz_mismatches = <<>>
    /\ pc = "done" =>
          /\ \A i \in CoverPos : writer.out[i].overlay <=> CodesDiffer(i)
          /\ Len(akz_mismatches) = Cardinality({i \in CoverPos : CodesDiffer(i)})

\* main code 2024_I_2, a cover with code 2024_I_1 emitted with the overlay
\* and one notice, and another cover emitted as it is
C9_Witness ==
    /\ pc = "done"
    /\ kataster_akz = Some("2024_I_2")
    /\ \E i \in CoverPos :
          /\ CoverAt(i).antragskennzeichen = Some("2024_I_1")
          /\ writer.out[i].overlay
          /\ akz_mismatches =
                 <<[page |-> CoverAt(i).page_number + 1,
                    old |-> "2024_I_1", new |-> "2024_I_2"]>>
    /\ \E i \in CoverPos : ~writer.out[i].overlay

\* the worker threads that have made their sorter
Constructed == {t \in 1..Len(threads) : threads[t].pc # "started"}

\* C10: every run of _process makes its own KatasterSorter: no instance is
\* used by two runs, so two workers at work at once never touch the same
\* pages, packages, debug_log or akz_mismatches.
C10_FreshSorterPerRun ==
    /\ \A i \in 1..Len(sorters) : Cardinality(sorters[i].users) <= 1
    /\ \A t \in Constructed :
          /\ threads[t].sorter \in 1..Len(sorters)
          /\ sorters[threads[t].sorter].users \subseteq {t}
    /\ \A t \in Constructed : \A u \in Constructed :
          t # u => threads[t].sorter # threads[u].sorter

\* two workers inside process_files at the same time, each on its own sorter
C10_Witness ==
    /\ Len(threads) >= 2
    /\ threads[1].pc = "in_call"
    /\ threads[2].pc = "in_call"
    /\ sorters[threads[1].sorter].users = {1}
    /\ sorters[threads[2].sorter].users = {2}

\* the case number running at page i of the main extract: that of the last
\* page up to i that states one
Running(i) ==
    LET stated == {j \in 1..i : pages[j].ffn # None}
    IN IF stated = {} THEN None
       ELSE pages[CHOOSE j \in stated : \A h \in stated : h <= j].ffn

\* the package that holds the page with index n
HolderOf(n) ==
    CHOOSE k \in 1..Len(packages) :
        \E j \in 1..Len(packages[k].pages) : packages[k].pages[j].page_number = n

\* C11: once _group_by_ffn has run, every page is in the package of the case
\* number running at it (a page that states a number, 0 included, sets it; a
\* page before any number is in the package without one); there is exactly
\* one package per running value and none without a page; the pages of a
\* package are in page order and the packages in the order of their first
\* pages.
C11_GroupByRunningFfn ==
    Grouped =>
        /\ \A i \in 1..Len(pages) : packages[HolderOf(i - 1)].ffn = Running(i)
        /\ \A k \in 1..Len(packages) : \A h \in 1..Len(packages) :
               k # h => packages[k].ffn # packages[h].ffn
        /\ \A k \in 1..Len(packages) : Len(packages[k].pages) >= 1
        /\ {packages[k].ffn : k \in 1..Len(packages)} = {Running(i) : i \in 1..Len(pages)}
        /\ \A k \in 1..Len(packages) : \A j \in 1..Len(packages[k].pages) - 1 :
               packages[k].pages[j].page_number < packages[k].pages[j + 1].page_number
        /\ \A k \in 1..Len(packages) - 1 :
               packages[k].pages[1].page_number < packages[k + 1].pages[1].page_number

\* a page without a case number, a page of case 0, a page without one: the
\* first is alone in the package without a number, the third joins case 0
C11_Witness ==
    /\ pc = "grouped"
    /\ Len(pages) = 3
    /\ pages[1].ffn = None /\ pages[2].ffn = Some(0) /\ pages[3].ffn = None
    /\ Len(packages) = 2
    /\ packages[1].ffn = None
    /\ Len(packages[1].pages) = 1
    /\ packages[2].ffn = Some(0)
    /\ Len(packages[2].pages) = 2
    /\ packages[2].pages[2].page_number = 2


\* the packages by their part of the output
KeyedPackages == {k \in 1..Len(packages) : packages[k].primary_gb # None}

NoKeyPackages ==
    {k \in 1..Len(packages) : ~packages[k].is_sonderfall /\ packages[k].primary_gb = None}

SpecialPackages == {k \in 1..Len(packages) : packages[k].is_sonderfall}

\* every output position of a package of A lies before every one of a
\* package of B
AllBefore(A, B) ==
    \A a \in A : \A b \in B : \A x \in PosOfPackage(a) : \A y \in PosOfPackage(b) : x < y

\* the output positions of the covers taken from one cover set
CoverPosOf(src) == {i \in 1..Len(writer.out) : writer.out[i].src = src}

\* C12: in the assembled output the keyed standard groups come first, in
\* strictly ascending key order, with their covers; then the standard
\* packages without a key, in the order the packages were found and with no
\* cover among or right before them; then, behind every standard page, the
\* special packages with their covers, in the order they were found.
C12_TopLevelOrder ==
    pc = "done" =>
        /\ AllBefore(KeyedPackages, NoKeyPackages)
        /\ AllBefore(KeyedPackages, SpecialPackages)
        /\ AllBefore(NoKeyPackages, SpecialPackages)
        /\ \A a \in KeyedPackages : \A b \in KeyedPackages :
               packages[a].primary_gb[1] < packages[b].primary_gb[1]
                   => AllBefore({a}, {b})
        /\ \A a \in NoKeyPackages : \A b \in NoKeyPackages :
               a < b => AllBefore({a}, {b})
        /\ \A a \in SpecialPackages : \A b \in SpecialPackages :
               a < b => AllBefore({a}, {b})
        /\ \A c \in CoverPosOf("cover_standard") :
               \A k \in NoKeyPackages \cup SpecialPackages :
                   \A y \in PosOfPackage(k) : c < y
        /\ \A c \in CoverPosOf("cover_sonder") :
               \A k \in KeyedPackages \cup NoKeyPackages :
                   \A y \in PosOfPackage(k) : y < c

\* a special package, then one without a key, then one with a key, each of
\* one page: the output is the third page, the second, the first
C12_Witness ==
    /\ pc = "done"
    /\ Len(packages) = 3
    /\ 1 \in SpecialPackages
    /\ 2 \in NoKeyPackages
    /\ 3 \in KeyedPackages
    /\ writer.out = <<OutPage("kataster", 2, FALSE), OutPage("kataster", 1, FALSE),
                      OutPage("kataster", 0, FALSE)>>


\* the first output position of package k
FirstPos(k) == CHOOSE x \in PosOfPackage(k) : \A y \in PosOfPackage(k) : x <= y

\* C13: with n >= 1 special cover pages, the i-th special package (from 0,
\* in discovery order) has right before its first page the special cover
\* page i mod n, corrected by the rule of _apply_akz_correction, and no other
\* special cover is emitted; with no special cover pages no special cover is
\* emitted at all.
C13_CyclicSonderCovers ==
    pc = "done" =>
        LET n == Len(cover_sonder_pages)
        IN /\ n = 0 => CoverPosOf("cover_sonder") = {}
           /\ n >= 1 =>
                 /\ Cardinality(CoverPosOf("cover_sonder")) = Len(sonderfall_packages)
                 /\ \A i \in 0..(Len(sonderfall_packages) - 1) :
                        LET at == FirstPos(sonderfall_packages[i + 1]) - 1
                        IN /\ at >= 1
                           /\ writer.out[at].src = "cover_sonder"
                           /\ writer.out[at].page_number
                                  = cover_sonder_pages[(i % n) + 1].page_number
                           /\ writer.out[at].page_number = i % n
                           /\ writer.out[at].overlay <=> CodesDiffer(at)

\* three special packages and two special cover pages: the covers emitted
\* are page 0, page 1 and page 0 again
C13_Witness ==
    /\ pc = "done"
    /\ Len(sonderfall_packages) = 3
    /\ Len(cover_sonder_pages) = 2
    /\ Len(writer.out) = 6
    /\ writer.out[1].src = "cover_sonder" /\ writer.out[1].page_number = 0
    /\ writer.out[3].src = "cover_sonder" /\ writer.out[3].page_number = 1
    /\ writer.out[5].src = "cover_sonder" /\ writer.out[5].page_number = 0


\* the positions of the file list that hold the last file of their role
LastOfRole ==
    {i \in 1..Len(files) :
        \A j \in (i + 1)..Len(files) :
            detect_file_type(files[j].data) # detect_file_type(files[i].data)}

\* the file list without the files that a later file of the same role follows
LastPerRole ==
    LET at == sorted(LastOfRole)
    IN [k \in 1..Len(at) |-> files[at[k]]]

\* the data of the last file of a role, if the list has one
LastData(role) ==
    LET of == {i \in LastOfRole : detect_file_type(files[i].data) = role}
    IN IF of = {} THEN None ELSE Some(files[CHOOSE i \in of : TRUE].data)

\* a report without its debug lines
Fields(r) ==
    [f \in DOMAIN r \ {"debug_log"} |-> r[f]]

\* C14: of several files of one role (a file without any marker counts as a
\* main extract) the last in the list is the one processed: the run fails,
\* or returns the page, package and cover counts, the code, the notices and
\* the output (and, after the one detection line per file, the debug
\* lines), and leaves the pages and packages, exactly as on the list with the
\* earlier files of each role taken out.
C14_LastFileOfRoleWins ==
    /\ pc # "new" =>
          /\ kataster_bytes = LastData("kataster")
          /\ cover_std_bytes = LastData("cover_standard")
          /\ cover_snd_bytes = LastData("cover_sonder")
          /\ pc = "ValueError" <=> raises(LastPerRole)
    /\ pc = "done" =>
          LET alone == process_files(LastPerRole)
          IN /\ Fields(returned[1]) = Fields(alone.returned)
             /\ pages = alone.pages
             /\ packages = alone.packages
             /\ SubSeq(debug_log, Len(files) + 1, Len(debug_log))
                    = SubSeq(alone.debug_log, Len(LastPerRole) + 1, Len(alone.debug_log))

\* a.pdf with case numbers and a code, then b.pdf without any marker, then
\* a standard cover set: the run is that of b.pdf, one page and no code
C14_Witness ==
    /\ pc = "done"
    /\ Len(files) = 3
    /\ files[1].filename = "a.pdf"
    /\ files[2].filename = "b.pdf"
    /\ files[3].filename = "c.pdf"
    /\ returned[1].total_pages = 1
    /\ returned[1].kataster_akz = None
    /\ returned[1].combined_pdf = Some(<<OutPage("kataster", 0, FALSE)>>)


\* the standard cover pages that name sheet g
CoversOf(g) ==
    {c \in 1..Len(cover_standard_pages) : cover_standard_pages[c].gb_number = Some(g)}

\* C15: for a group whose sheet several standard cover pages name, the one
\* cover emitted is the page with the highest index among them; a cover
\* page that names no sheet is never emitted, and no standard cover page is
\* emitted twice.
C15_LastStandardCoverWins ==
    pc = "done" =>
        /\ \A g \in PrimaryKeys :
               CoversOf(g) # {} =>
                   \E i \in CoverPosOf("cover_standard") :
                       /\ StdCoverPos(g) = {i}
                       /\ \A c \in CoversOf(g) :
                              cover_standard_pages[c].page_number <= writer.out[i].page_number
        /\ \A i \in CoverPosOf("cover_standard") :
               /\ CoverAt(i).gb_number # None
               /\ CoverAt(i).gb_number[1] \in PrimaryKeys
               /\ \A j \in CoverPosOf("cover_standard") :
                      writer.out[j].page_number = writer.out[i].page_number => j = i

\* three cover pages: sheet 5, no sheet, sheet 5 with another code; the
\* group of sheet 5 is led by the third page, corrected, and the first two
\* pages are not in the output
C15_Witness ==
    /\ pc = "done"
    /\ Len(cover_standard_pages) = 3
    /\ cover_standard_pages[1].gb_number = Some(5)
    /\ cover_standard_pages[2].gb_number = None
    /\ cover_standard_pages[3].gb_number = Some(5)
    /\ \E i \in 1..Len(writer.out) : writer.out[i] = OutPage("cover_standard", 2, TRUE)
    /\ \A i \in CoverPosOf("cover_standard") : writer.out[i].page_number = 2


\* the places in package k of the member pages that state a sequence number
Numbered(k) ==
    {j \in 1..Len(packages[k].pages) :
        pages[packages[k].pages[j].page_number + 1].lfd_nr # None}

\* C16: once _group_by_ffn has run, a package has no sequence number
\* exactly when none of its member pages states one, and otherwise has the
\* number of the first member page, in page order, that states one, 0
\* included, whatever later member pages state.
C16_FirstSequenceNumber ==
    Grouped =>
        \A k \in 1..Len(packages) :
            /\ packages[k].lfd_nr = None <=> Numbered(k) = {}
            /\ Numbered(k) # {} =>
                   LET first == CHOOSE j \in Numbered(k) : \A h \in Numbered(k) : j <= h
                   IN packages[k].lfd_nr
                          = pages[packages[k].pages[first].page_number + 1].lfd_nr

\* one package of three pages that state no sequence number, 0 and 1: the
\* package has sequence number 0
C16_Witness ==
    /\ pc = "grouped"
    /\ Len(packages) = 1
    /\ Len(packages[1].pages) = 3
    /\ pages[1].lfd_nr = None
    /\ pages[2].lfd_nr = Some(0)
    /\ pages[3].lfd_nr = Some(1)
    /\ packages[1].lfd_nr = Some(0)


AkzExtracted == pc \in {"akz", "grouped", "analyzed", "sorted", "covers", "done"}

\* the main-extract pages that carry a tracking code
Coded == {i \in 1..Len(pages) : pages[i].antragskennzeichen # None}

\* the code of the lowest-index main-extract page that carries one
FirstCode ==
    IF Coded = {} THEN None
    ELSE pages[CHOOSE i \in Coded : \A j \in Coded : i <= j].antragskennzeichen

\* C17: once _extract_kataster_akz has run, kataster_akz is absent exactly
\* when no main-extract page carries a code and is otherwise the code of the
\* lowest-index page that carries one; every emitted cover is corrected
\* exactly when its own code is present and differs from that one code,
\* whatever the code of the package it leads, and every notice names that
\* code as the new one.
C17_OneSharedCode ==
    /\ AkzExtracted =>
          /\ kataster_akz = None <=> Coded = {}
          /\ kataster_akz = FirstCode
    /\ pc = "done" =>
          /\ \A i \in CoverPos :
                 writer.out[i].overlay
                     <=> (/\ FirstCode # None
                          /\ CoverAt(i).antragskennzeichen # None
                          /\ CoverAt(i).antragskennzeichen # FirstCode)
          /\ \A m \in 1..Len(akz_mismatches) : Some(akz_mismatches[m].new) = FirstCode

\* the first page carries 2024_I_1; a special package carries 2024_I_2 and
\* so does the special cover before it: the cover is corrected to 2024_I_1
C17_Witness ==
    /\ pc = "done"
    /\ kataster_akz = Some("2024_I_1")
    /\ pages[1].antragskennzeichen = Some("2024_I_1")
    /\ \E k \in SpecialPackages :
          /\ packages[k].antragskennzeichen = Some("2024_I_2")
          /\ FirstPos(k) > 1
          /\ writer.out[FirstPos(k) - 1].src = "cover_sonder"
          /\ CoverAt(FirstPos(k) - 1).antragskennzeichen = Some("2024_I_2")
          /\ writer.out[FirstPos(k) - 1].overlay


\* the output positions that hold the main-extract page with index n
EmittedAt(n) ==
    {i \in 1..Len(writer.out) :
        writer.out[i].src = "kataster" /\ writer.out[i].page_number = n}

\* C18: when process_files has returned, every main-extract page is in the
\* output exactly once and nothing but main-extract pages and covers is: the
\* output has as many pages as the main extract plus one per cover
\* emission, and pages_added counts them.
C18_EveryPageOnce ==
    pc = "done" =>
        /\ \A n \in 0..(Len(pages) - 1) : Cardinality(EmittedAt(n)) = 1
        /\ \A i \in 1..Len(writer.out) :
               writer.out[i].src = "kataster"
                   => writer.out[i].page_number \in 0..(Len(pages) - 1)
        /\ Len(writer.out) = Len(pages) + Cardinality(CoverPos)
        /\ writer.pages_added = Len(writer.out)
        /\ returned[1].total_pages = Len(pages)

\* a package with a key and one without, and a standard cover set: the
\* output is the cover and the two pages
C18_Witness ==
    /\ pc = "done"
    /\ Len(pages) = 2
    /\ KeyedPackages # {}
    /\ NoKeyPackages # {}
    /\ Cardinality(CoverPos) = 1
    /\ Len(writer.out) = 3
    /\ EmittedAt(0) # {} /\ EmittedAt(1) # {}


\* the output positions of the covers whose code is there and differs from
\* the main extract's, and the m-th of them in output order
Differing == {i \in CoverPos : CodesDiffer(i)}

NthDiffering(m) == CHOOSE i \in Differing : Cardinality({j \in Differing : j < i}) = m - 1

\* C19: when process_files has returned, akz_mismatches holds one notice per
\* cover emission whose code is present and differs from the main extract's
\* (a special cover page emitted for several packages once per emission),
\* in the order of the emissions, each naming the cover's page, its code
\* and the main extract's code.
C19_NoticesFollowEmissions ==
    pc = "done" =>
        /\ Len(akz_mismatches) = Cardinality(Differing)
        /\ \A m \in 1..Len(akz_mismatches) :
               akz_mismatches[m]
                   = [page |-> CoverAt(NthDiffering(m)).page_number + 1,
                      old  |-> CoverAt(NthDiffering(m)).antragskennzeichen[1],
                      new  |-> kataster_akz[1]]
        /\ returned[1].akz_mismatches = akz_mismatches

\* three special packages and two special cover pages with another code:
\* three notices, for cover page 1, cover page 2 and cover page 1 again
C19_Witness ==
    /\ pc = "done"
    /\ Len(sonderfall_packages) = 3
    /\ Len(cover_sonder_pages) = 2
    /\ Len(akz_mismatches) = 3
    /\ akz_mismatches[1].page = 1
    /\ akz_mismatches[2].page = 2
    /\ akz_mismatches[3].page = 1


\* the worker threads that have not yet posted their last callback
Working == {t \in 1..Len(threads) : threads[t].pc # "finished"}

\* the posted _show_results and _show_error callbacks the main loop has not
\* run yet
PendingShows ==
    {i \in 1..Len(after_queue) : after_queue[i][1] \in {"_show_results", "_show_error"}}

\* the runs between _start_processing and their _show_results or _show_error
RunsInFlight == Cardinality(Working) + Cardinality(PendingShows)

\* what _process reads for a list of paths
FileData(paths) == [i \in 1..Len(paths) |-> File(paths[i], Disk(paths[i]))]

\* C20: in the desktop host at most one run is in flight at any time; while
\* one is, the process button stays disabled and the files the worker has
\* read are those of selected_files; and a result offered for saving is the
\* result of processing the files selected now.
C20_SingleRunInFlight ==
    /\ RunsInFlight <= 1
    /\ RunsInFlight >= 1 => process_btn = "disabled"
    /\ \A t \in Working :
           threads[t].pc \in {"read", "in_call"}
               => threads[t].file_data = FileData(selected_files)
    /\ download_btn = "normal" =>
           /\ ~raises(FileData(selected_files))
           /\ result = Some(process_files(FileData(selected_files)).returned)


=============================================================================
